---- MODULE Spec2Model ----
(***************************************************************************)
(* Model of the text-splicing and tag-collection code of calcipy:          *)
(*   calcipy/doit_tasks/doc.py            _write_pkg_init, _ReadMeMachine, *)
(*                                        _write_to_readme and its callers *)
(*   calcipy/doit_tasks/tag_collector.py  _search_lines, _search_files,    *)
(*                                        _format_report, _create_tag_file *)
(*   dash_dev/doit_helpers/base.py        read_lines                       *)
(*                                                                         *)
(* A Python str is a sequence of characters.  Here a text is a sequence of *)
(* one-character strings ("\n", " ", "\t", "/", ":", ...) and of literals  *)
(* that stand for a run of characters the code never looks into (a word, a *)
(* fixed piece of a template); every operation of the code on a str        *)
(* (strip, split, join, replace, index, the regular expressions) is        *)
(* computed on that sequence.                                              *)
(***************************************************************************)
EXTENDS Integers, Sequences, FiniteSets, TLC

VARIABLES
    \* ---- the package __init__.py and _write_pkg_init
    pkg,            \* DIG.meta: [pkg_name, pkg_version]
    init_file,      \* text of <pkg_name>/__init__.py on disk
    init_before,    \* text of the file before the last run of _write_pkg_init
    init_runs,      \* number of runs of _write_pkg_init so far
    init_warned,    \* number of logger.warning calls made by _write_pkg_init
    \* ---- README.md and _write_to_readme
    readme_file,    \* README.md on disk: File(text) or NoFile
    script_file,    \* tests/examples/readme.py: File(text) or NoFile
    coverage_file,  \* coverage.json, parsed, or NoCoverage
    readme_before,  \* README.md before the last call of _write_to_readme
    readme_call,    \* the last call of _write_to_readme: pattern, new_text, lines read, outcome
    readme_runs,    \* number of README tasks run so far
    readme_start,   \* README.md before the first README task
    \* ---- _search_lines on the lines of one file
    scan_lines,     \* the lines given to _search_lines
    scan_result,    \* [done, comments]: what _search_lines returned, once called
    \* ---- the project tree and _create_tag_file
    fs,             \* the files of the project by path, TAG_SUMMARY.md among them
    tag_call,       \* the last run of _create_tag_file: the tree it read, matches, report
    tag_runs,       \* number of runs of _create_tag_file so far
    edits           \* number of edits of source files so far

mergeVars == <<pkg, init_file, init_before, init_runs, init_warned>>

readmeVars ==
    <<readme_file, script_file, coverage_file, readme_before, readme_call, readme_runs,
      readme_start>>

scanVars == <<scan_lines, scan_result>>

vars == <<pkg, init_file, init_before, init_runs, init_warned,
          readme_file, script_file, coverage_file, readme_before, readme_call, readme_runs,
          readme_start, scan_lines, scan_result, fs, tag_call, tag_runs, edits>>

tagVars == <<fs, tag_call, tag_runs, edits>>

-----------------------------------------------------------------------------
(* Bounds of the model *)

\* longest __init__.py, in lines, that Init writes to disk
MaxInitLines == 5
\* runs of _write_pkg_init in one behaviour
MaxInitRuns == 3
\* longest README.md, in lines, that Init writes to disk
MaxReadmeLines == 4
\* README tasks (_write_code_to_readme, _write_coverage_to_readme) in one behaviour
MaxReadmeRuns == 1
\* longest old content, in lines, of a region of the README in SpecDocument
MaxOldLines == 1
\* longest file, in lines, that _search_lines is given in SpecSearch
MaxScanLines == 5
\* longest source file, in lines, of the project that _create_tag_file scans
MaxFileLines == 1
\* runs of _create_tag_file in one behaviour
MaxTagRuns == 2
\* edits of a source file between the runs in one behaviour
MaxEdits == 1

-----------------------------------------------------------------------------
(* str and list operations of Python, on sequences *)

\* str.isspace for one character: what str.strip() removes
IsSpace(c) == c \in {" ", "\t", "\n", "\r"}

RECURSIVE lstrip(_)
lstrip(s) ==
    IF s = <<>> THEN s
    ELSE IF IsSpace(Head(s)) THEN lstrip(Tail(s)) ELSE s

RECURSIVE rstrip(_)
rstrip(s) ==
    IF s = <<>> THEN s
    ELSE IF IsSpace(s[Len(s)]) THEN rstrip(SubSeq(s, 1, Len(s) - 1)) ELSE s

\* str.strip()
strip(s) == rstrip(lstrip(s))

\* str.find(c, start) for a one-character c, positions counted from 1: the
\* first position from start on that holds c, 0 when there is none
RECURSIVE find(_, _, _)
find(s, c, start) ==
    IF start > Len(s) THEN 0
    ELSE IF s[start] = c THEN start ELSE find(s, c, start + 1)

\* str.split(sep) for a one-character sep: always at least one piece
RECURSIVE split(_, _)
split(s, sep) ==
    LET i == find(s, sep, 1)
    IN  IF i = 0 THEN <<s>>
        ELSE <<SubSeq(s, 1, i - 1)>> \o split(SubSeq(s, i + 1, Len(s)), sep)

\* sep.join(pieces)
RECURSIVE join(_, _)
join(sep, pieces) ==
    IF pieces = <<>> THEN <<>>
    ELSE IF Len(pieces) = 1 THEN pieces[1]
    ELSE pieces[1] \o <<sep>> \o join(sep, Tail(pieces))

\* str.replace(old, new) for a one-character old
RECURSIVE replace(_, _, _)
replace(s, old, new) ==
    IF s = <<>> THEN <<>>
    ELSE (IF Head(s) = old THEN new ELSE <<Head(s)>>) \o replace(Tail(s), old, new)

\* x in list
contains(list, x) == \E i \in 1..Len(list) : list[i] = x

\* list.index(x): the first position of x, counted from 0; the caller checks
\* contains(list, x) first, where Python raises ValueError
index(list, x) ==
    (CHOOSE i \in 1..Len(list) : list[i] = x /\ \A j \in 1..(i - 1) : list[j] # x) - 1

\* list[start:], start counted from 0
slice_from(list, start) == SubSeq(list, start + 1, Len(list))

\* all sequences over S of length 0..n
SeqsUpTo(S, n) == UNION {[1..k -> S] : k \in 0..n}

-----------------------------------------------------------------------------
(* base.py: read_lines *)

\* a path on disk: no file, or a file with its text
NoFile == [is_file |-> FALSE, text |-> <<>>]
File(text) == [is_file |-> TRUE, text |-> text]

\* read_lines(file_path): the text split on newlines, [] when there is no file
read_lines(file) == IF file.is_file THEN split(file.text, "\n") ELSE <<>>

-----------------------------------------------------------------------------
(* doc.py: _ReadMeMachine *)

\* the two comment patterns of the callers:
\*   "CODE"      re.compile(r'\s*<!-- /?(CODE:.*) -->')
\*   "COVERAGE"  re.compile(r'<!-- /?(COVERAGE) -->')
\* position in s of the key, after '<!-- ' and the optional '/'
key_start(s) == IF Len(s) >= 2 /\ s[2] = "/" THEN 3 ELSE 2

\* the last ' -->' of s: '.*' is greedy
last_close(s) == CHOOSE k \in 1..Len(s) :
                     s[k] = " -->" /\ \A j \in (k + 1)..Len(s) : s[j] # " -->"

\* mutant of matches: each pattern matches the markers of both kinds
matches_either_kind(pattern, line) ==
    LET s == lstrip(line)
    IN  /\ Len(s) >= key_start(s)
        /\ s[1] = "<!-- "
        /\ s[key_start(s)] \in {"CODE:", "COVERAGE"}
        /\ \E k \in (key_start(s) + 1)..Len(s) : s[k] = " -->"

\* comment_pattern.match(line): a match at the start of the line
matches(pattern, line) ==
    IF pattern = "CODE"
    THEN LET s == lstrip(line)
         IN  /\ Len(s) >= key_start(s)
             /\ s[1] = "<!-- "
             /\ s[key_start(s)] = "CODE:"
             /\ \E k \in (key_start(s) + 1)..Len(s) : s[k] = " -->"
    ELSE /\ Len(line) >= key_start(line) + 1
         /\ line[1] = "<!-- "
         /\ line[key_start(line)] = "COVERAGE"
         /\ line[key_start(line) + 1] = " -->"

\* comment_pattern.match(line).group(1)
group1(pattern, line) ==
    IF pattern = "CODE"
    THEN LET s == lstrip(line) IN SubSeq(s, key_start(s), last_close(s) - 1)
    ELSE <<"COVERAGE">>

\* line.strip().startswith('<!-- /')
is_closer(line) ==
    LET s == strip(line) IN Len(s) >= 2 /\ s[1] = "<!-- " /\ s[2] = "/"

\* the transitions of the machine; a trigger that is not declared for the
\* current state raises MachineError
transitions ==
    { [trigger |-> "start_new", source |-> "readme", dest |-> "new"],
      [trigger |-> "end", source |-> "new", dest |-> "readme"] }

\* mutant of fire: a trigger with no transition from the state is ignored
fire_ignoring_invalid(m, trigger) ==
    IF \E t \in transitions : t.trigger = trigger /\ t.source = m.state
    THEN [m EXCEPT !.state =
             (CHOOSE t \in transitions : t.trigger = trigger /\ t.source = m.state).dest]
    ELSE m

\* self.<trigger>() on machine m: the declared transition, or MachineError
fire(m, trigger) ==
    IF \E t \in transitions : t.trigger = trigger /\ t.source = m.state
    THEN [m EXCEPT !.state =
             (CHOOSE t \in transitions : t.trigger = trigger /\ t.source = m.state).dest]
    ELSE [m EXCEPT !.err = "MachineError"]

\* _ReadMeMachine(): state 'readme'; parse starts with readme_lines = []
new_machine == [state |-> "readme", readme_lines |-> <<>>, err |-> "none"]

\* mutant of injected: the new text without the blank lines around it
injected_no_blank_lines(new_text, key) == new_text[key]

\* what parse appends after an opener of this key
injected(new_text, key) == <<<<>>>> \o new_text[key] \o <<<<>>>>

\* mutant of on_marker: a key without an entry gives empty content
\* (new_text.get(key, [])) instead of KeyError
on_marker_default_empty(m, line, pattern, new_text) ==
    LET m1 == [m EXCEPT !.readme_lines = Append(@, line)]
    IN  IF is_closer(line) THEN fire(m1, "end")
        ELSE LET key == group1(pattern, line)
                 text == IF key \in DOMAIN new_text THEN new_text[key] ELSE <<>>
             IN  fire([m1 EXCEPT !.readme_lines = @ \o <<<<>>>> \o text \o <<<<>>>>],
                      "start_new")

\* mutant of on_marker: only the opener is appended, the closer is dropped
\* with the region it ends
on_marker_drops_closer(m, line, pattern, new_text) ==
    IF is_closer(line) THEN fire(m, "end")
    ELSE LET m1 == [m EXCEPT !.readme_lines = Append(@, line)]
             key == group1(pattern, line)
         IN  IF key \notin DOMAIN new_text THEN [m1 EXCEPT !.err = "KeyError"]
             ELSE fire([m1 EXCEPT !.readme_lines = @ \o injected(new_text, key)],
                       "start_new")

\* a line that matches the pattern: it is appended, then a closer fires end(),
\* an opener looks its key up (KeyError), appends the new text and fires start_new()
on_marker(m, line, pattern, new_text) ==
    LET m1 == [m EXCEPT !.readme_lines = Append(@, line)]
    IN  IF is_closer(line) THEN fire(m1, "end")
        ELSE LET key == group1(pattern, line)
             IN  IF key \notin DOMAIN new_text THEN [m1 EXCEPT !.err = "KeyError"]
                 ELSE fire([m1 EXCEPT !.readme_lines = @ \o injected(new_text, key)],
                           "start_new")

\* mutant of on_text: the line is kept whatever the state
on_text_keeps_region(m, line) == [m EXCEPT !.readme_lines = Append(@, line)]

\* a line that does not match: kept in state 'readme', dropped in state 'new'
on_text(m, line) ==
    IF m.state = "readme" THEN [m EXCEPT !.readme_lines = Append(@, line)] ELSE m

\* one turn of the loop of parse; new_line = self.readme_lines[-1] raises
\* IndexError on an empty list
parse_line(m, line, pattern, new_text) ==
    IF m.err # "none" THEN m
    ELSE LET m1 == IF matches(pattern, line) THEN on_marker(m, line, pattern, new_text)
                   ELSE on_text(m, line)
         IN  IF m1.err = "none" /\ m1.readme_lines = <<>>
             THEN [m1 EXCEPT !.err = "IndexError"] ELSE m1

\* the loop of parse over lines[1..n], from machine m
RECURSIVE parse_from(_, _, _, _, _)
parse_from(m, lines, n, pattern, new_text) ==
    IF n = 0 THEN m
    ELSE parse_line(parse_from(m, lines, n - 1, pattern, new_text), lines[n], pattern, new_text)

\* _ReadMeMachine().parse(lines, comment_pattern, new_text): the machine at
\* the end; err = "none" when parse returns readme_lines
parse(lines, pattern, new_text) == parse_from(new_machine, lines, Len(lines), pattern, new_text)

-----------------------------------------------------------------------------
(* doc.py: the callers of _write_to_readme *)

fn == "tests/examples/readme.py"

\* the fences of the code block and the quote of a path are written with the
\* backquote character, which a TLA+ string cannot hold
fence_py == "<3 backquotes>py"
fence == "<3 backquotes>"
backquote == "<backquote>"

\* new_text of _write_code_to_readme: the script in a fenced block, each line rstripped
code_new_text(script) ==
    LET script_lines == read_lines(script)
        source_code == <<<<fence_py>>>> \o script_lines \o <<<<fence>>>>
    IN  [key \in {<<"CODE:", fn>>} |->
            [i \in 1..Len(source_code) |-> rstrip(source_code[i])]]

\* round(percent_covered, 1), percent_covered in hundredths of a percent and
\* the result in tenths (ties to even)
round1(hundredths) ==
    LET q == hundredths \div 10
        r == hundredths % 10
    IN  IF r > 5 \/ (r = 5 /\ q % 2 = 1) THEN q + 1 ELSE q

\* f"| {' | '.join([str(value) for value in row])} |"
table_line(row) ==
    <<"| ">> \o join(" | ", [i \in 1..Len(row) |-> <<row[i]>>]) \o <<" |">>

\* one row of the table for a file of the report
coverage_row(file_obj) ==
    LET per == round1(file_obj.percent_covered)
    IN  << backquote \o file_obj.rel_path \o backquote,
           ToString(file_obj.num_statements),
           ToString(file_obj.missing_lines),
           ToString(file_obj.excluded_lines),
           ToString(per \div 10) \o "." \o ToString(per % 10) \o "%" >>

\* table_lines of _write_coverage_to_readme
table_lines(coverage) ==
    LET legend == <<"File", "Statements", "Missing", "Excluded", "Coverage">>
        rows == <<legend, [i \in 1..Len(legend) |-> "--:"]>>
                \o [i \in 1..Len(coverage.files) |-> coverage_row(coverage.files[i])]
    IN  [i \in 1..Len(rows) |-> table_line(rows[i])]
        \o << <<>>, <<"Generated on: ", coverage.timestamp>> >>

coverage_new_text(coverage) == [key \in {<<"COVERAGE">>} |-> table_lines(coverage)]

\* _write_to_readme(comment_pattern, new_text): parse the lines read and write
\* them joined by newlines; an exception of parse leaves the file as it is
NoCall ==
    [pattern |-> "none", new_text |-> <<>>, lines |-> <<>>, out |-> new_machine]

_write_to_readme(pattern, new_text) ==
    LET lines == read_lines(readme_file)
        out == parse(lines, pattern, new_text)
    IN  /\ readme_before' = readme_file
        /\ readme_call' = [pattern |-> pattern, new_text |-> new_text,
                           lines |-> lines, out |-> out]
        /\ readme_file' = IF out.err = "none" THEN File(join("\n", out.readme_lines))
                          ELSE readme_file

\* the lines a README.md is made of in Init
ReadmeLineSet ==
    { <<>>, <<"# calcipy">>,
      <<"<!-- ", "CODE:", fn, " -->">>, <<"<!-- ", "/", "CODE:", fn, " -->">>,
      <<"<!-- ", "COVERAGE", " -->">>, <<"<!-- ", "/", "COVERAGE", " -->">>,
      <<" ", "<!-- ", "CODE:", "tests/other.py", " -->">> }

\* two scripts: two plain lines (one with trailing blanks), and a script whose
\* docstring quotes a marker line
PlainScript ==
    File(join("\n", << <<"import calcipy", " ">>, <<"calcipy.run()">> >>))
QuotingScript ==
    File(join("\n", << <<"'''">>, <<"<!-- ", "/", "CODE:", fn, " -->">>, <<"'''">> >>))

NoCoverage == [is_file |-> FALSE, files |-> <<>>, timestamp |-> ""]

CoverageReport ==
    [is_file |-> TRUE,
     files |-> << [rel_path |-> "calcipy/doit_tasks/doc.py", num_statements |-> 98,
                   missing_lines |-> 12, excluded_lines |-> 3, percent_covered |-> 8775] >>,
     timestamp |-> "2020-12-10T07:23:43"]

\* the project around the README in Init: neither file, or a script and a report
ProjectSet ==
    { [script |-> NoFile, coverage |-> NoCoverage],
      [script |-> PlainScript, coverage |-> CoverageReport],
      [script |-> QuotingScript, coverage |-> CoverageReport] }

\* the parts of the state a specification does not use stay as they start
NoTagCall ==
    [ran |-> FALSE, tree |-> <<>>, paths_file |-> <<>>, matches |-> <<>>, report |-> <<>>]

TagIdle ==
    /\ fs = <<>>
    /\ tag_call = NoTagCall
    /\ tag_runs = 0
    /\ edits = 0

ScanIdle ==
    /\ scan_lines = <<>>
    /\ scan_result = [done |-> FALSE, comments |-> <<>>]

ReadmeIdle ==
    /\ readme_file = NoFile
    /\ script_file = NoFile
    /\ coverage_file = NoCoverage
    /\ readme_before = NoFile
    /\ readme_call = NoCall
    /\ readme_runs = 0
    /\ readme_start = NoFile

MergeIdle ==
    /\ pkg = [pkg_name |-> "calcipy", pkg_version |-> "0.0.1"]
    /\ init_file = <<>>
    /\ init_before = <<>>
    /\ init_runs = 0
    /\ init_warned = 0

InitReadme ==
    /\ readme_file \in {NoFile}
           \cup {File(join("\n", ls)) : ls \in SeqsUpTo(ReadmeLineSet, MaxReadmeLines) \ {<<>>}}
    /\ \E project \in ProjectSet :
           script_file = project.script /\ coverage_file = project.coverage
    /\ readme_before = readme_file
    /\ readme_start = readme_file
    /\ readme_call = NoCall
    /\ readme_runs = 0
    /\ MergeIdle
    /\ ScanIdle
    /\ TagIdle

\* _write_code_to_readme: a warning and nothing else when the script is no file
_write_code_to_readme ==
    /\ readme_runs < MaxReadmeRuns
    /\ readme_runs' = readme_runs + 1
    /\ IF script_file.is_file
       THEN _write_to_readme("CODE", code_new_text(script_file))
       ELSE UNCHANGED <<readme_file, readme_before, readme_call>>
    /\ UNCHANGED <<script_file, coverage_file, readme_start>>
    /\ UNCHANGED <<mergeVars, scanVars, tagVars>>

\* _write_coverage_to_readme: nothing when there is no coverage.json
_write_coverage_to_readme ==
    /\ readme_runs < MaxReadmeRuns
    /\ readme_runs' = readme_runs + 1
    /\ IF coverage_file.is_file
       THEN _write_to_readme("COVERAGE", coverage_new_text(coverage_file))
       ELSE UNCHANGED <<readme_file, readme_before, readme_call>>
    /\ UNCHANGED <<script_file, coverage_file, readme_start>>
    /\ UNCHANGED <<mergeVars, scanVars, tagVars>>

NextReadme == _write_code_to_readme \/ _write_coverage_to_readme

SpecReadme == InitReadme /\ [][NextReadme]_vars

-----------------------------------------------------------------------------
(* doc.py: task_document, the code splice and then the coverage splice on a  *)
(* README made of outside lines and of at most one region of each kind       *)

code_opener == <<"<!-- ", "CODE:", fn, " -->">>
code_closer == <<"<!-- ", "/", "CODE:", fn, " -->">>
coverage_opener == <<"<!-- ", "COVERAGE", " -->">>
coverage_closer == <<"<!-- ", "/", "COVERAGE", " -->">>

\* a script whose docstring quotes the opener of the coverage table
CoverageQuotingScript ==
    File(join("\n", << <<"'''">>, coverage_opener, <<"'''">> >>))

DocumentProjectSet ==
    ProjectSet \cup { [script |-> CoverageQuotingScript, coverage |-> CoverageReport] }

\* the lines between the regions: none, a title, a blank line
OutsideSet == { <<>>, << <<"# calcipy">> >>, << <<>> >> }

\* a region with its old content, or no region
RegionSet(opener, closer) ==
    { <<>> } \cup { <<opener>> \o old \o <<closer>> :
                      old \in SeqsUpTo({ <<"old text">> }, MaxOldLines) }

DocumentSet ==
    LET ordered_regions ==
            { <<code, coverage>> : code \in RegionSet(code_opener, code_closer),
                                   coverage \in RegionSet(coverage_opener, coverage_closer) }
            \cup { <<coverage, code>> : code \in RegionSet(code_opener, code_closer),
                                        coverage \in RegionSet(coverage_opener,
                                                               coverage_closer) }
    IN  { a \o regions[1] \o b \o regions[2] \o c :
              a \in OutsideSet, b \in OutsideSet, c \in OutsideSet,
              regions \in ordered_regions } \ { <<>> }

InitDocument ==
    /\ readme_file \in { File(join("\n", document)) : document \in DocumentSet }
    /\ \E project \in DocumentProjectSet :
           script_file = project.script /\ coverage_file = project.coverage
    /\ readme_before = readme_file
    /\ readme_start = readme_file
    /\ readme_call = NoCall
    /\ readme_runs = 0
    /\ MergeIdle
    /\ ScanIdle
    /\ TagIdle

\* the first action of task_document
document_code ==
    /\ readme_runs = 0
    /\ readme_runs' = 1
    /\ IF script_file.is_file
       THEN _write_to_readme("CODE", code_new_text(script_file))
       ELSE UNCHANGED <<readme_file, readme_before, readme_call>>
    /\ UNCHANGED <<script_file, coverage_file, readme_start>>
    /\ UNCHANGED <<mergeVars, scanVars, tagVars>>

\* the second action of task_document
document_coverage ==
    /\ readme_runs = 1
    /\ readme_runs' = 2
    /\ IF coverage_file.is_file
       THEN _write_to_readme("COVERAGE", coverage_new_text(coverage_file))
       ELSE UNCHANGED <<readme_file, readme_before, readme_call>>
    /\ UNCHANGED <<script_file, coverage_file, readme_start>>
    /\ UNCHANGED <<mergeVars, scanVars, tagVars>>

NextDocument == document_code \/ document_coverage

SpecDocument == InitDocument /\ [][NextDocument]_vars

-----------------------------------------------------------------------------
(* tag_collector.py: _search_lines.  The lines of a source file are        *)
(* sequences of single characters: the regular expression consumes one     *)
(* character after the colon.                                              *)

_tags ==
    << <<"D", "E", "B", "U", "G">>, <<"F", "I", "X", "M", "E">>, <<"F", "Y", "I">>,
       <<"H", "A", "C", "K">>, <<"N", "O", "T", "E">>,
       <<"P", "L", "A", "N", "N", "E", "D">>, <<"R", "E", "V", "I", "E", "W">>,
       <<"T", "B", "D">>, <<"T", "O", "D", "O">> >>

skip_directive == <<":", "s", "k", "i", "p", "_", "t", "a", "g", "s", ":">>

\* s[first-1:last], a slice that stops at the end of s
substr(s, first, last) ==
    LET stop == IF last <= Len(s) THEN last ELSE Len(s)
    IN  IF stop < first THEN <<>> ELSE SubSeq(s, first, stop)

\* sub in s, for strings
has_substring(s, sub) ==
    \E i \in 1..(Len(s) + 1 - Len(sub)) : SubSeq(s, i, i + Len(sub) - 1) = sub

_tags_len == Len(_tags)

\* the tag of _tags that s holds at position i, <<>> when none does ('|' tries
\* the tags in order; none is a prefix of another)
tag_at(s, i) ==
    IF \E t \in 1.._tags_len : substr(s, i, i + Len(_tags[t]) - 1) = _tags[t]
    THEN _tags[CHOOSE t \in 1.._tags_len :
                   /\ substr(s, i, i + Len(_tags[t]) - 1) = _tags[t]
                   /\ \A u \in 1..(t - 1) : substr(s, i, i + Len(_tags[u]) - 1) # _tags[u]]
    ELSE <<>>

\* _regex_raw matches at position i of s:
\*   (\s|\()  (?P<tag>...)  (:[^\r\n])  (?P<text>.+)
\* text_start is where the group text begins
text_start(s, i) == i + 1 + Len(tag_at(s, i + 1)) + 2

regex_matches_at(s, i) ==
    /\ i <= Len(s)
    /\ (IsSpace(s[i]) \/ s[i] = "(")
    /\ tag_at(s, i + 1) # <<>>
    /\ text_start(s, i) <= Len(s)
    /\ s[text_start(s, i) - 2] = ":"
    /\ s[text_start(s, i) - 1] \notin {"\r", "\n"}
    /\ \A k \in text_start(s, i)..Len(s) : s[k] # "\n"

\* the leftmost position from start on where the regex matches, 0 when none does
RECURSIVE first_match(_, _)
first_match(line, start) ==
    IF start > Len(line) THEN 0
    ELSE IF regex_matches_at(line, start) THEN start ELSE first_match(line, start + 1)

\* regex_compiled.search(line): the leftmost match, as [found, tag, text]
regex_search(line) ==
    LET i == first_match(line, 1)
    IN  IF i # 0
        THEN [found |-> TRUE, tag |-> tag_at(line, i + 1),
              text |-> SubSeq(line, text_start(line, i), Len(line))]
        ELSE [found |-> FALSE, tag |-> <<>>, text |-> <<>>]

\* _TaggedComment(lineno, tag, text)
_TaggedComment(lineno, tag, text) == [lineno |-> lineno, tag |-> tag, text |-> text]

\* mutant of skips: the directive is looked for after the first line only
skips_after_first_line(lineno, line) ==
    lineno >= 1 /\ lineno <= 3 /\ has_substring(line, skip_directive)

\* mutant of skips: the directive is honoured in the first five lines
skips_in_five_lines(lineno, line) == lineno <= 4 /\ has_substring(line, skip_directive)

\* the break of the loop: lineno <= 3 and ':skip_tags:' in line (lineno from 0)
skips(lineno, line) == lineno <= 3 /\ has_substring(line, skip_directive)

\* the comment appended for a match, mg = match.groupdict()
tagged(lineno, mg) == _TaggedComment(lineno + 1, mg.tag, mg.text)

\* the loop of _search_lines from enumerate index lineno on
RECURSIVE search_from(_, _, _)
search_from(lines, lineno, comments) ==
    IF lineno >= Len(lines) THEN comments
    ELSE LET line == lines[lineno + 1]
             match == regex_search(line)
         IN  IF skips(lineno, line) THEN comments
             ELSE search_from(lines, lineno + 1,
                              IF match.found
                              THEN Append(comments, tagged(lineno, match))
                              ELSE comments)

_search_lines(lines) == search_from(lines, 0, <<>>)

\* the lines of source files in Init
line_code == <<"x", " ", "=", " ", "1">>
line_todo == <<"#", " ", "T", "O", "D", "O", ":", " ", "f", "i", "x", " ", "t", "h", "i", "s">>
line_fixme_tight == <<"#", " ", "F", "I", "X", "M", "E", ":", "n", "o", "w">>
line_todo_empty == <<"#", " ", "T", "O", "D", "O", ":", " ">>
line_skip == <<"#", " ">> \o skip_directive
line_note_skip == <<"(", "N", "O", "T", "E", ":", " ">> \o skip_directive \o <<")">>

ScanLineSet ==
    { line_code, line_todo, line_fixme_tight, line_todo_empty, line_skip, line_note_skip }

InitSearch ==
    /\ scan_lines \in SeqsUpTo(ScanLineSet, MaxScanLines)
    /\ scan_result = [done |-> FALSE, comments |-> <<>>]
    /\ MergeIdle
    /\ ReadmeIdle
    /\ TagIdle

search_lines_call ==
    /\ ~scan_result.done
    /\ scan_result' = [done |-> TRUE, comments |-> _search_lines(scan_lines)]
    /\ UNCHANGED scan_lines
    /\ UNCHANGED <<mergeVars, readmeVars, tagVars>>

NextSearch == search_lines_call

SpecSearch == InitSearch /\ [][NextSearch]_vars

-----------------------------------------------------------------------------
(* tag_collector.py: _search_files, _format_report, _find_files,           *)
(* _create_tag_file                                                        *)

_TAG_SUMMARY_FILENAME == "TAG_SUMMARY.md"

\* the source files of the project, in ascending order of their paths
SourcePaths == <<"calcipy/doit_tasks/doc.py", "docs/README.md">>

ProjectPaths == {SourcePaths[i] : i \in 1..Len(SourcePaths)} \cup {_TAG_SUMMARY_FILENAME}

\* a file of the project: absent, text, or bytes that are not UTF-8
Absent == [is_file |-> FALSE, utf8 |-> TRUE, text |-> <<>>]
Text(text) == [is_file |-> TRUE, utf8 |-> TRUE, text |-> text]
Undecodable == [is_file |-> TRUE, utf8 |-> FALSE, text |-> <<>>]

\* _Tags(file_path, tagged_comments)
_Tags(file_path, tagged_comments) ==
    [file_path |-> file_path, tagged_comments |-> tagged_comments]

\* mutant of lines_of: the bytes are decoded with errors='replace' and a
\* tagged line comes out of them
lines_of_replacing_errors(file) == IF file.utf8 THEN read_lines(file) ELSE <<line_todo>>

\* the lines _search_files has for a file: read_lines, or [] after the
\* warning for UnicodeDecodeError
lines_of(file) == IF file.utf8 THEN read_lines(file) ELSE <<>>

\* _search_files(paths_file) on the tree: a collection for each file with comments
RECURSIVE _search_files(_, _)
_search_files(tree, paths_file) ==
    IF paths_file = <<>> THEN <<>>
    ELSE LET comments == _search_lines(lines_of(tree[Head(paths_file)]))
         IN  (IF comments # <<>> THEN <<_Tags(Head(paths_file), comments)>> ELSE <<>>)
             \o _search_files(tree, Tail(paths_file))

\* path a sorts before path b, for the paths of the project
path_rank(file_path) == CHOOSE i \in 1..Len(SourcePaths) : SourcePaths[i] = file_path

\* sorted(tagged_collection, key=lambda tc: tc.file_path): insertion, stable
RECURSIVE sorted_by_path(_)
sorted_by_path(collection) ==
    IF collection = <<>> THEN <<>>
    ELSE LET rest == sorted_by_path(SubSeq(collection, 1, Len(collection) - 1))
             last == collection[Len(collection)]
             keep == Cardinality({i \in 1..Len(rest) :
                         path_rank(rest[i].file_path) <= path_rank(last.file_path)})
         IN  SubSeq(rest, 1, keep) \o <<last>> \o SubSeq(rest, keep + 1, Len(rest))

\* mutant of ordered: the collections are taken as they were found
ordered_as_found(tagged_collection) == tagged_collection

\* the order in which _format_report goes through the collections
ordered(tagged_collection) == sorted_by_path(tagged_collection)

\* f'{value:>width}' for a value of n characters: the blanks put before it
pad(n, width) == [i \in 1..(IF n < width THEN width - n ELSE 0) |-> " "]

\* the number of digits of str(n)
digits(n) == IF n < 10 THEN 1 ELSE IF n < 100 THEN 2 ELSE IF n < 1000 THEN 3 ELSE 4

\* f'    line {comment.lineno:>3} {comment.tag:>7}: {comment.text}\n'
comment_line(comment) ==
    <<"    line ">> \o pad(digits(comment.lineno), 3) \o <<ToString(comment.lineno)>>
    \o <<" ">> \o pad(Len(comment.tag), 7) \o comment.tag \o <<":", " ">>
    \o comment.text \o <<"\n">>

\* counter[tag] += 1 on a defaultdict, kept in insertion order
counter_add(counter, tag) ==
    IF \E i \in 1..Len(counter) : counter[i].tag = tag
    THEN [i \in 1..Len(counter) |->
             IF counter[i].tag = tag THEN [counter[i] EXCEPT !.count = @ + 1] ELSE counter[i]]
    ELSE Append(counter, [tag |-> tag, count |-> 1])

\* the loops of _format_report: [output, counter] after the first n comments of
\* a collection, and after the first k collections
RECURSIVE report_comments(_, _, _)
report_comments(acc, comments, n) ==
    IF n = 0 THEN acc
    ELSE LET before == report_comments(acc, comments, n - 1)
         IN  [output |-> before.output \o comment_line(comments[n]),
              counter |-> counter_add(before.counter, comments[n].tag)]

RECURSIVE report_files(_, _)
report_files(collections, k) ==
    IF k = 0 THEN [output |-> <<>>, counter |-> <<>>]
    ELSE LET before == report_files(collections, k - 1)
             head == [before EXCEPT !.output = @ \o <<collections[k].file_path, "\n">>]
             body == report_comments(head, collections[k].tagged_comments,
                                     Len(collections[k].tagged_comments))
         IN  [body EXCEPT !.output = @ \o <<"\n">>]

\* ',  '.join([f'{tag} ({count})' for tag, count in counter.items()])
formatted_summary(counter) ==
    join(",  ", [i \in 1..Len(counter) |->
                    counter[i].tag \o <<" (", ToString(counter[i].count), ")">>])

\* _format_report(base_dir, tagged_collection)
_format_report(tagged_collection) ==
    LET collections == ordered(tagged_collection)
        folded == report_files(collections, Len(collections))
        summary == formatted_summary(folded.counter)
    IN  IF summary # <<>>
        THEN folded.output \o <<"Found tagged comments for ">> \o summary \o <<"\n">>
        ELSE folded.output

\* mutant of is_searched: TAG_SUMMARY.md is searched like any other file
is_searched_with_summary(tree, file_path) == tree[file_path].is_file

\* _find_files keeps a file of the project unless its name is in ignored_filenames
is_searched(tree, file_path) ==
    tree[file_path].is_file /\ file_path # _TAG_SUMMARY_FILENAME

\* the lists _find_files may return: the files it keeps, in the order of the globs
found_files(tree) ==
    LET kept == {file_path \in ProjectPaths : is_searched(tree, file_path)}
    IN  {paths \in [1..Cardinality(kept) -> kept] :
            \A i, j \in 1..Cardinality(kept) : i # j => paths[i] # paths[j]}

fence_log == "<3 backquotes>log"

header(pkg_name) ==
    <<"# Task Summary", "\n", "\n", "Auto-Generated by ", pkg_name, "\n", "\n", fence_log, "\n">>

footer == <<fence, "\n">>

\* mutant of summary_after: an empty report leaves the summary file as it is
summary_after_no_unlink(summary, pkg_name, report) ==
    IF strip(report) # <<>> THEN Text(header(pkg_name) \o report \o footer) ELSE summary

\* the summary file after _create_tag_file: written for a report that is not
\* blank, unlinked otherwise when it is a file
summary_after(summary, pkg_name, report) ==
    IF strip(report) # <<>> THEN Text(header(pkg_name) \o report \o footer)
    ELSE IF summary.is_file THEN Absent ELSE summary

\* the contents of a source file in Init
TagLineSet == { line_code, line_todo }

SourceSet ==
    {Undecodable} \cup {Text(join("\n", ls)) : ls \in SeqsUpTo(TagLineSet, MaxFileLines)}

\* what an edit leaves in a source file
EditSet ==
    { Text(<<>>), Text(join("\n", <<line_fixme_tight, line_todo>>)),
      Text(join("\n", <<line_skip, line_todo>>)) }

InitTags ==
    /\ fs \in [ProjectPaths -> SourceSet \cup {Absent, Text(<<"# Task Summary", "\n">>)}]
    /\ \A i \in 1..Len(SourcePaths) : fs[SourcePaths[i]] \in SourceSet
    /\ fs[_TAG_SUMMARY_FILENAME] \in {Absent, Text(<<"# Task Summary", "\n">>)}
    /\ tag_call = NoTagCall
    /\ tag_runs = 0
    /\ edits = 0
    /\ MergeIdle
    /\ ReadmeIdle
    /\ ScanIdle

\* _create_tag_file(path_tag_summary)
_create_tag_file ==
    /\ tag_runs < MaxTagRuns
    /\ tag_runs' = tag_runs + 1
    /\ \E paths_file \in found_files(fs) :
           LET tagged_collection == _search_files(fs, paths_file)
               report == _format_report(tagged_collection)
           IN  /\ tag_call' = [ran |-> TRUE, tree |-> fs, paths_file |-> paths_file,
                               matches |-> tagged_collection,
                               report |-> report]
               /\ fs' = [fs EXCEPT ![_TAG_SUMMARY_FILENAME] =
                            summary_after(@, pkg.pkg_name, report)]
    /\ UNCHANGED edits
    /\ UNCHANGED <<mergeVars, readmeVars, scanVars>>

\* the developer rewrites a source file between two runs
edit_source ==
    /\ edits < MaxEdits
    /\ edits' = edits + 1
    /\ \E i \in 1..Len(SourcePaths), file \in EditSet :
           fs' = [fs EXCEPT ![SourcePaths[i]] = file]
    /\ UNCHANGED <<tag_call, tag_runs>>
    /\ UNCHANGED <<mergeVars, readmeVars, scanVars>>

NextTags == _create_tag_file \/ edit_source

SpecTags == InitTags /\ [][NextTags]_vars

-----------------------------------------------------------------------------
(* doc.py: the package __init__.py *)

_INIT_DIVIDER ==
    <<"# =============== Above is Auto-Generated by calcipy. User content goes below ===============">>

\* _LOGGER_CONFIG.format(docstring=..., pkg_version=..., pkg_name=...)
_LOGGER_CONFIG(docstring, pkg_version, pkg_name) ==
    docstring \o <<"\n", "\n">>
    \o <<"from loguru import logger", "\n", "\n">>
    \o <<"__version__ = '", pkg_version, "'", "\n">>
    \o <<"__pkg_name__ = '", pkg_name, "'", "\n", "\n">>
    \o <<"logger.disable(__pkg_name__)", "\n">>

\* the text _write_pkg_init generates: the filled template, a newline, the divider
init_text(meta) ==
    _LOGGER_CONFIG(<<"\"\"\"", meta.pkg_name, ".\"\"\"">>, meta.pkg_version, meta.pkg_name)
    \o <<"\n">> \o _INIT_DIVIDER

\* mutant of user_text: without a divider the whole file is kept as user text
user_text_kept_without_divider(init_lines) ==
    IF contains(init_lines, _INIT_DIVIDER)
    THEN LET break_index == index(init_lines, _INIT_DIVIDER) + 1
         IN  join("\n", slice_from(init_lines, break_index))
    ELSE <<"\n">> \o join("\n", init_lines)

\* the user text _write_pkg_init keeps: the lines after the divider, '' when
\* no line is the divider (the ValueError branch)
user_text(init_lines) ==
    IF contains(init_lines, _INIT_DIVIDER)
    THEN LET break_index == index(init_lines, _INIT_DIVIDER) + 1
         IN  join("\n", slice_from(init_lines, break_index))
    ELSE <<>>

\* what _write_pkg_init writes for the file text it read
merged_text(meta, text) ==
    LET init_lines == split(strip(text), "\n")
    IN  strip(replace(init_text(meta), "\t", <<" ", " ", " ", " ">>) \o user_text(init_lines))
        \o <<"\n">>

\* the lines an __init__.py is made of in Init: blank, code, the divider, an
\* indented divider and indented code
InitLineSet ==
    { <<>>, <<"import os">>, <<" ">> \o _INIT_DIVIDER, _INIT_DIVIDER, <<" ", "y = 2">> }

Pkgs ==
    { [pkg_name |-> "calcipy", pkg_version |-> "0.0.1"],
      [pkg_name |-> "dash_dev", pkg_version |-> "0.1.0"] }

InitMerge ==
    /\ pkg \in Pkgs
    /\ init_file \in {join("\n", ls) : ls \in SeqsUpTo(InitLineSet, MaxInitLines)}
    /\ init_before = init_file
    /\ init_runs = 0
    /\ init_warned = 0
    /\ ReadmeIdle
    /\ ScanIdle
    /\ TagIdle

_write_pkg_init ==
    /\ init_runs < MaxInitRuns
    /\ init_before' = init_file
    /\ init_file' = merged_text(pkg, init_file)
    /\ init_warned' = IF contains(split(strip(init_file), "\n"), _INIT_DIVIDER)
                      THEN init_warned ELSE init_warned + 1
    /\ init_runs' = init_runs + 1
    /\ UNCHANGED pkg
    /\ UNCHANGED <<readmeVars, scanVars, tagVars>>

NextMerge == _write_pkg_init

SpecMerge == InitMerge /\ [][NextMerge]_vars

-----------------------------------------------------------------------------
(* Claims about the init-file merge (SpecMerge) *)

\* the lines _write_pkg_init read on its last run
last_init_lines == split(strip(init_before), "\n")

\* the lines after the first divider line of the file read on the last run
last_user_lines == slice_from(last_init_lines, index(last_init_lines, _INIT_DIVIDER) + 1)

\* the filled template of the package, the generated prefix P
generated_prefix ==
    _LOGGER_CONFIG(<<"\"\"\"", pkg.pkg_name, ".\"\"\"">>, pkg.pkg_version, pkg.pkg_name)

\* C1: when the file read has the lines [A, B, DIVIDER, C, D] with the user
\* lines C and D non-empty, the file written is
\* strip(P + '\n' + DIVIDER + '\n' + C + '\n' + D) + '\n': the divider keeps a
\* line of its own and the user lines follow it unchanged and in order.
C1_MergePreservesSuffix ==
    ( /\ init_runs >= 1
      /\ Len(last_init_lines) = 5
      /\ contains(last_init_lines, _INIT_DIVIDER)
      /\ index(last_init_lines, _INIT_DIVIDER) = 2
      /\ \A i \in 1..Len(last_user_lines) :
            last_user_lines[i] # <<>> /\ last_user_lines[i] # _INIT_DIVIDER )
    => init_file = strip(generated_prefix \o <<"\n">> \o _INIT_DIVIDER \o <<"\n">>
                         \o join("\n", last_user_lines)) \o <<"\n">>

\* C2: a second run of _write_pkg_init with the same package name and version
\* leaves the file as the first run wrote it.
C2_MergeIdempotent ==
    init_runs >= 2 => init_file = init_before

-----------------------------------------------------------------------------
(* Claims about the README splice (SpecReadme).  They are stated on the    *)
(* last call of _write_to_readme: the lines it read (in_lines), the        *)
(* pattern and the replacement map it passed to parse, and what parse      *)
(* gave (readme_call.out).                                                 *)

readme_ran == readme_call.pattern # "none"
in_lines == readme_call.lines
out_lines == readme_call.out.readme_lines
parse_returned == readme_call.out.err = "none"

\* line i of the input matches the pattern; it is an opener or a closer
is_marker_line(i) == matches(readme_call.pattern, in_lines[i])
is_closer_line(i) == is_marker_line(i) /\ is_closer(in_lines[i])
is_opener_line(i) == is_marker_line(i) /\ ~is_closer(in_lines[i])
key_of(i) == group1(readme_call.pattern, in_lines[i])
has_key(i) == key_of(i) \in DOMAIN readme_call.new_text

markers_before(i) == Cardinality({j \in 1..(i - 1) : is_marker_line(j)})

\* the markers of lines 1..n are opener, closer, opener, closer, ...
alternate_upto(n) ==
    \A i \in 1..n : is_marker_line(i) => (is_opener_line(i) <=> markers_before(i) % 2 = 0)

\* well-formed opener/closer pairs: the markers alternate and the last one is a closer
well_formed == alternate_upto(Len(in_lines)) /\ markers_before(Len(in_lines) + 1) % 2 = 0

\* every opener's key has an entry in the replacement map
keys_known == \A i \in 1..Len(in_lines) : is_opener_line(i) => has_key(i)

\* a line outside every region: no marker, and an even number of markers before it
is_outside_line(i) == ~is_marker_line(i) /\ markers_before(i) % 2 = 0

\* a line of the region of an opener: no marker, and an odd number of markers before it
is_region_line(i) == ~is_marker_line(i) /\ markers_before(i) % 2 = 1

\* the lines parse copies: markers and outside lines
is_copied_line(i) == is_marker_line(i) \/ is_outside_line(i)

\* the number of lines parse injects for the openers among lines 1..n
RECURSIVE injected_upto(_)
injected_upto(n) ==
    IF n = 0 THEN 0
    ELSE injected_upto(n - 1)
         + (IF is_opener_line(n) THEN Len(readme_call.new_text[key_of(n)]) + 2 ELSE 0)

\* where copied line i of the input stands in the output
out_pos(i) == Cardinality({j \in 1..i : is_copied_line(j)}) + injected_upto(i - 1)

\* the closer of opener i: the next marker after it, 0 when there is none
closer_of(i) ==
    IF \E j \in (i + 1)..Len(in_lines) : is_marker_line(j)
    THEN CHOOSE j \in (i + 1)..Len(in_lines) :
             is_marker_line(j) /\ \A k \in (i + 1)..(j - 1) : ~is_marker_line(k)
    ELSE 0

\* no line of the replacement map matches the pattern
replacement_plain ==
    \A key \in DOMAIN readme_call.new_text :
        \A i \in 1..Len(readme_call.new_text[key]) :
            ~matches(readme_call.pattern, readme_call.new_text[key][i])

\* parse, by a fresh machine, of the output of the last call
reparsed == parse(out_lines, readme_call.pattern, readme_call.new_text)

\* C3 as stated: for a document with well-formed opener/closer pairs and a
\* replacement map that holds every opener's key, parse returns, and parse of
\* its output returns that output unchanged.
C3_SpliceIdempotent_AnyMap ==
    (readme_ran /\ well_formed /\ keys_known)
    => (parse_returned /\ reparsed.err = "none" /\ reparsed.readme_lines = out_lines)

\* C3 amended: the same, for a replacement map none of whose lines matches the
\* marker pattern.
C3_SpliceIdempotent ==
    (readme_ran /\ well_formed /\ keys_known /\ replacement_plain)
    => (parse_returned /\ reparsed.err = "none" /\ reparsed.readme_lines = out_lines)

\* a well-formed document with a region whose old content parse replaced
C3_Witness ==
    /\ readme_ran /\ well_formed /\ keys_known /\ replacement_plain
    /\ \E i \in 1..Len(in_lines) : is_region_line(i)
    /\ \E i \in 1..Len(in_lines) : is_outside_line(i)
    /\ out_lines # in_lines
    /\ reparsed.readme_lines = out_lines

\* C4: in the output of parse, the lines strictly between an opener with key K
\* and its closer are exactly '', the lines of new_text[K], '': nothing of the
\* old region is left between them.
C4_ReplacementComplete ==
    (readme_ran /\ parse_returned)
    => \A i \in 1..Len(in_lines) :
           (is_opener_line(i) /\ closer_of(i) # 0)
           => /\ out_pos(closer_of(i)) <= Len(out_lines)
              /\ out_lines[out_pos(i)] = in_lines[i]
              /\ out_lines[out_pos(closer_of(i))] = in_lines[closer_of(i)]
              /\ SubSeq(out_lines, out_pos(i) + 1, out_pos(closer_of(i)) - 1)
                     = <<<<>>>> \o readme_call.new_text[key_of(i)] \o <<<<>>>>

\* parse returned for a document with an opener, old region lines and the closer
C4_Witness ==
    /\ readme_ran /\ parse_returned
    /\ \E i \in 1..Len(in_lines) :
           /\ is_opener_line(i) /\ closer_of(i) > i + 1
           /\ in_lines[i + 1] # <<>>
           /\ Len(readme_call.new_text[key_of(i)]) >= 3

\* C5: every line outside the regions and every opener and closer stands in the
\* output unchanged, once, in the order of the input: copied line i is at
\* out_pos(i), and the output holds nothing but the copied and the injected lines.
C5_Passthrough ==
    (readme_ran /\ parse_returned)
    => /\ Len(out_lines) = Cardinality({i \in 1..Len(in_lines) : is_copied_line(i)})
                           + injected_upto(Len(in_lines))
       /\ \A i \in 1..Len(in_lines) : is_copied_line(i) => out_lines[out_pos(i)] = in_lines[i]

\* parse returned for a document with outside lines before and after a region
C5_Witness ==
    /\ readme_ran /\ parse_returned
    /\ \E i, j, k \in 1..Len(in_lines) :
           /\ i < j /\ j < k
           /\ is_outside_line(i) /\ in_lines[i] # <<>>
           /\ is_opener_line(j)
           /\ is_outside_line(k) /\ in_lines[k] # <<>>

\* parse reaches line i: the markers before it alternate and their keys are known
reaches(i) == alternate_upto(i - 1) /\ \A j \in 1..(i - 1) : is_opener_line(j) => has_key(j)

\* C6: when parse reaches an opener whose key is not in the replacement map it
\* raises KeyError, returns nothing, and README.md stays as it was.
C6_LookupMismatchAborts ==
    readme_ran
    => \A i \in 1..Len(in_lines) :
           (reaches(i) /\ is_opener_line(i) /\ ~has_key(i))
           => /\ readme_call.out.err = "KeyError"
              /\ readme_file = readme_before

\* an opener with an unknown key met after lines that parse had already copied
C6_Witness ==
    /\ readme_ran
    /\ readme_before.is_file
    /\ \E i \in 2..Len(in_lines) : reaches(i) /\ is_opener_line(i) /\ ~has_key(i)
    /\ readme_call.out.err = "KeyError"

-----------------------------------------------------------------------------
(* Claims about _search_lines (SpecSearch) *)

\* C7: when the first line of the file contains ':skip_tags:', _search_lines
\* returns an empty list, whatever the later lines hold and also when the first
\* line itself matches the tag regex.
C7_SkipDirective ==
    (scan_result.done /\ scan_lines # <<>> /\ has_substring(scan_lines[1], skip_directive))
    => scan_result.comments = <<>>

\* a first line that holds the directive and matches the regex, with tagged lines after it
C7_Witness ==
    /\ scan_result.done
    /\ Len(scan_lines) >= 3
    /\ has_substring(scan_lines[1], skip_directive)
    /\ regex_search(scan_lines[1]).found
    /\ regex_search(scan_lines[2]).found
    /\ scan_result.comments = <<>>

\* the comment body of a line that matches: what follows the tag and its colon,
\* less the blanks that separate it from the colon
body_after_colon(line) ==
    LET i == CHOOSE k \in 1..Len(line) :
                 regex_matches_at(line, k) /\ \A j \in 1..(k - 1) : ~regex_matches_at(line, j)
    IN  lstrip(SubSeq(line, text_start(line, i) - 1, Len(line)))

\* the positions of the lines that match the tag regex, in increasing order
RECURSIVE matching_positions(_)
matching_positions(n) ==
    IF n = 0 THEN <<>>
    ELSE matching_positions(n - 1)
         \o (IF regex_search(scan_lines[n]).found THEN <<n>> ELSE <<>>)

\* C10: for a file with no skip directive in its first 4 lines, _search_lines
\* returns one comment per line that matches the tag regex, in line order, with
\* lineno the 1-based position of the line, tag the matched tag and text the
\* comment body after the tag and the colon.
C10_ScanBookkeeping ==
    ( /\ scan_result.done
      /\ \A i \in 1..Len(scan_lines) : i <= 4 => ~has_substring(scan_lines[i], skip_directive) )
    => LET at == matching_positions(Len(scan_lines))
       IN  /\ Len(scan_result.comments) = Len(at)
           /\ \A k \in 1..Len(at) :
                  /\ scan_result.comments[k].lineno = at[k]
                  /\ \E t \in 1..Len(_tags) : scan_result.comments[k].tag = _tags[t]
                  /\ has_substring(scan_lines[at[k]], scan_result.comments[k].tag \o <<":">>)
                  /\ scan_result.comments[k].text = body_after_colon(scan_lines[at[k]])

-----------------------------------------------------------------------------
(* Claims about _format_report and _create_tag_file (SpecTags) *)

\* the comments of the last run in the order of the claim: the collections in
\* ascending order of their paths, the comments of a collection in file order
RECURSIVE comments_by_path(_)
comments_by_path(n) ==
    IF n = 0 THEN <<>>
    ELSE LET of_path == {c \in 1..Len(tag_call.matches) :
                            tag_call.matches[c].file_path = SourcePaths[n]}
         IN  comments_by_path(n - 1)
             \o (IF of_path = {} THEN <<>>
                 ELSE tag_call.matches[CHOOSE c \in of_path : TRUE].tagged_comments)

all_comments == comments_by_path(Len(SourcePaths))

\* the tags of the first n comments, each once, in the order they are first seen
RECURSIVE tags_seen(_)
tags_seen(n) ==
    IF n = 0 THEN <<>>
    ELSE LET before == tags_seen(n - 1)
         IN  IF \E k \in 1..Len(before) : before[k] = all_comments[n].tag
             THEN before ELSE Append(before, all_comments[n].tag)

count_of(tag) == Cardinality({k \in 1..Len(all_comments) : all_comments[k].tag = tag})

RECURSIVE sum_counts(_)
sum_counts(tags) ==
    IF tags = <<>> THEN 0 ELSE count_of(Head(tags)) + sum_counts(Tail(tags))

\* 'TAG (count)' for each tag of tags, put together with ',  '
RECURSIVE summary_of(_)
summary_of(tags) ==
    IF tags = <<>> THEN <<>>
    ELSE Head(tags) \o <<" (", ToString(count_of(Head(tags))), ")">>
         \o (IF Len(tags) > 1 THEN <<",  ">> ELSE <<>>) \o summary_of(Tail(tags))

\* what the report of the last run holds after 'Found tagged comments for ',
\* <<>> when it has no such line
summary_line ==
    LET at == {p \in 1..Len(tag_call.report) :
                  tag_call.report[p] = "Found tagged comments for "}
    IN  IF at = {} THEN <<>>
        ELSE SubSeq(tag_call.report, (CHOOSE p \in at : TRUE) + 1, Len(tag_call.report))

\* C8: the summary of _format_report lists each tag that occurs exactly once,
\* with a count equal to the number of tagged comments that have the tag over
\* all the collections (the counts sum to the number of tagged comments), the
\* tags in the order they are first seen when the collections are taken in
\* ascending order of file path and the comments in file order.
C8_ReportSummary ==
    (tag_call.ran /\ tag_call.matches # <<>>)
    => LET tags == tags_seen(Len(all_comments))
       IN  /\ \A i, j \in 1..Len(tags) : i # j => tags[i] # tags[j]
           /\ sum_counts(tags) = Len(all_comments)
           /\ summary_line = summary_of(tags) \o <<"\n">>

\* files with the tags [FIXME, TODO] and [TODO], found in descending order of
\* their paths, give 'FIXME (1),  TODO (2)'
C8_Witness ==
    /\ tag_call.ran
    /\ Len(tag_call.matches) = 2
    /\ tag_call.matches[1].file_path = SourcePaths[2]
    /\ Len(tag_call.matches[1].tagged_comments) = 1
    /\ Len(tag_call.matches[2].tagged_comments) = 2
    /\ summary_line = <<"F", "I", "X", "M", "E", " (", "1", ")", ",  ",
                        "T", "O", "D", "O", " (", "2", ")", "\n">>

\* some source file of the tree holds a tagged comment that the scan returns
has_tagged_comment(tree) ==
    \E i \in 1..Len(SourcePaths) :
        /\ tree[SourcePaths[i]].is_file
        /\ _search_lines(lines_of(tree[SourcePaths[i]])) # <<>>

\* C9: after a run of _create_tag_file the summary file exists if and only if
\* the run found a tagged comment: a run that finds none deletes the summary
\* file an earlier run left (and leaves none when there was none), a run that
\* finds some writes header + report + footer over it.
C9_SummaryTracksScan ==
    tag_call.ran
    => /\ fs[_TAG_SUMMARY_FILENAME].is_file <=> has_tagged_comment(tag_call.tree)
       /\ has_tagged_comment(tag_call.tree)
              => fs[_TAG_SUMMARY_FILENAME]
                     = Text(header(pkg.pkg_name) \o tag_call.report \o footer)
       /\ ~has_tagged_comment(tag_call.tree) => fs[_TAG_SUMMARY_FILENAME] = Absent

\* a second run that finds no tagged comment and deletes the summary file the
\* first run wrote
C9_Witness ==
    /\ tag_call.ran
    /\ tag_runs = 2
    /\ tag_call.tree[_TAG_SUMMARY_FILENAME].is_file
    /\ Len(tag_call.tree[_TAG_SUMMARY_FILENAME].text) > Len(header(pkg.pkg_name))
    /\ ~has_tagged_comment(tag_call.tree)
    /\ ~fs[_TAG_SUMMARY_FILENAME].is_file

\* the paths of the last run less the files that cannot be decoded, in input order
RECURSIVE decodable_paths(_)
decodable_paths(n) ==
    IF n = 0 THEN <<>>
    ELSE decodable_paths(n - 1)
         \o (IF tag_call.tree[tag_call.paths_file[n]].utf8
             THEN <<tag_call.paths_file[n]>> ELSE <<>>)

\* the collections of the paths, one for each file whose lines hold a tagged
\* comment, in the order of the paths
RECURSIVE collections_of(_)
collections_of(paths) ==
    IF paths = <<>> THEN <<>>
    ELSE LET found == _search_lines(read_lines(tag_call.tree[Head(paths)]))
         IN  (IF found = <<>> THEN <<>> ELSE <<_Tags(Head(paths), found)>>)
             \o collections_of(Tail(paths))

\* C11: a file of the input that cannot be decoded does not make _search_files
\* raise and contributes no collection; the result is what the other files give,
\* in input order, as if the file were not in the input, and only files with a
\* match have a collection.
C11_DecodeFailureTolerated ==
    tag_call.ran
    => /\ tag_call.matches = collections_of(decodable_paths(Len(tag_call.paths_file)))
       /\ \A c \in 1..Len(tag_call.matches) :
              /\ tag_call.tree[tag_call.matches[c].file_path].utf8
              /\ tag_call.matches[c].tagged_comments # <<>>

\* a run over a file that cannot be decoded and, after it in the input, a file
\* with a tagged comment
C11_Witness ==
    /\ tag_call.ran
    /\ Len(tag_call.paths_file) = 2
    /\ ~tag_call.tree[tag_call.paths_file[1]].utf8
    /\ Len(tag_call.matches) = 1
    /\ tag_call.matches[1].file_path = tag_call.paths_file[2]

-----------------------------------------------------------------------------
(* Claims about the fallback of _write_pkg_init (SpecMerge) *)

\* what the fallback writes: the generated prefix and the divider, stripped,
\* and one newline
fallback_text ==
    strip(generated_prefix \o <<"\n">> \o _INIT_DIVIDER) \o <<"\n">>

\* the run that is taken logs one warning and writes the fallback text, which
\* ends with one newline after a character that is not white space
falls_back ==
    /\ init_warned' = init_warned + 1
    /\ init_file' = fallback_text
    /\ init_file'[Len(init_file')] = "\n"
    /\ ~IsSpace(init_file'[Len(init_file') - 1])

\* C12 as stated: when no line of the existing init file equals the divider
\* exactly, _write_pkg_init does not fail, logs a warning and writes the
\* generated prefix and the divider alone, stripped, with one trailing newline.
C12_LossyFallback_FileLines ==
    [][ (init_runs' = init_runs + 1 /\ ~contains(split(init_file, "\n"), _INIT_DIVIDER))
        => falls_back ]_vars

\* C12, amended: when no line of the text of the existing init file, stripped of
\* the white space at its two ends, equals the divider exactly, _write_pkg_init
\* does not fail, logs a warning and writes the generated prefix and the divider
\* alone, stripped, with one trailing newline.
C12_LossyFallback ==
    [][ (init_runs' = init_runs + 1
         /\ ~contains(split(strip(init_file), "\n"), _INIT_DIVIDER))
        => falls_back ]_vars

\* a first run on a file with code and no divider line, which warned and left
\* the fallback text
C12_Witness ==
    /\ init_runs = 1
    /\ init_warned = 1
    /\ contains(split(init_before, "\n"), <<"import os">>)
    /\ ~contains(split(strip(init_before), "\n"), _INIT_DIVIDER)
    /\ init_file = fallback_text

-----------------------------------------------------------------------------
(* Claims about the states of the README machine (SpecReadme) *)

\* the machine of the last call after the first n lines of its input
machine_after(n) ==
    parse_from(new_machine, in_lines, n, readme_call.pattern, readme_call.new_text)

\* line i is met by a machine that is in state 'new' and has raised nothing
met_in_region(i) ==
    machine_after(i - 1).err = "none" /\ machine_after(i - 1).state = "new"

\* C13: while the machine is in state 'new', an input line that is not a closer
\* line, whether or not it matches the marker pattern, is discarded: nothing is
\* appended to the output, the state stays 'new' and parsing goes on with the
\* next line.
C13_RegionDiscards ==
    readme_ran
    => \A i \in 1..Len(in_lines) :
           (met_in_region(i) /\ ~is_closer_line(i))
           => /\ machine_after(i).err = "none"
              /\ machine_after(i).state = "new"
              /\ machine_after(i).readme_lines = machine_after(i - 1).readme_lines

\* line i is met by a machine that is in state 'readme' and has raised nothing
met_in_readme(i) ==
    machine_after(i - 1).err = "none" /\ machine_after(i - 1).state = "readme"

\* the output ends with line i, a blank line, the replacement lines of its key
\* and a blank line
ends_with_block_of(i) ==
    LET block == <<in_lines[i]>> \o <<<<>>>> \o readme_call.new_text[key_of(i)] \o <<<<>>>>
    IN  /\ Len(out_lines) >= Len(block)
        /\ SubSeq(out_lines, Len(out_lines) - Len(block) + 1, Len(out_lines)) = block

\* C14: when an opener whose key is in the replacement map is never followed by
\* a closer before the end of the document, parse raises no error and returns
\* with the machine in state 'new'; the output ends with the opener, a blank
\* line, the replacement lines and a blank line, and every line of the input
\* after the opener is dropped.
C14_UnterminatedRegion ==
    readme_ran
    => \A i \in 1..Len(in_lines) :
           ( /\ met_in_readme(i)
             /\ is_opener_line(i)
             /\ has_key(i)
             /\ \A j \in (i + 1)..Len(in_lines) : ~is_closer_line(j) )
           => /\ parse_returned
              /\ readme_call.out.state = "new"
              /\ ends_with_block_of(i)

-----------------------------------------------------------------------------
(* Claims about the boundary of the skip directive (SpecSearch) *)

\* the 1-based position of the earliest line that holds ':skip_tags:', 0 when
\* no line does
RECURSIVE earliest_directive(_)
earliest_directive(from) ==
    IF from > Len(scan_lines) THEN 0
    ELSE IF has_substring(scan_lines[from], skip_directive) THEN from
         ELSE earliest_directive(from + 1)

\* the tagged comments of lines 1..n: one for each line the tag regex matches
RECURSIVE comments_of_lines(_)
comments_of_lines(n) ==
    IF n = 0 THEN <<>>
    ELSE LET found == regex_search(scan_lines[n])
         IN  comments_of_lines(n - 1)
             \o (IF found.found THEN <<_TaggedComment(n, found.tag, found.text)>> ELSE <<>>)

\* C15: when the earliest line that holds ':skip_tags:' is at 1-based position
\* k <= 4, _search_lines returns the tagged comments of lines 1..k-1 and none of
\* line k or of a later line; a directive that occurs at line 5 or later only
\* has no effect and the whole file is scanned.
C15_SkipBoundary ==
    scan_result.done
    => LET k == earliest_directive(1)
       IN  IF k # 0 /\ k <= 4
           THEN scan_result.comments = comments_of_lines(k - 1)
           ELSE scan_result.comments = comments_of_lines(Len(scan_lines))

\* a file of five lines with the directive at line 4 first, a tagged line
\* before it and a tagged line after it
C15_Witness ==
    /\ scan_result.done
    /\ Len(scan_lines) = 5
    /\ earliest_directive(1) = 4
    /\ regex_search(scan_lines[1]).found
    /\ regex_search(scan_lines[5]).found
    /\ scan_result.comments # <<>>
    /\ \A c \in 1..Len(scan_result.comments) : scan_result.comments[c].lineno < 4

\* the step the machine takes on line i is one of the two declared transitions,
\* taken on an opener and on a closer, or leaves the state as it is on a line
\* that is no marker
declared_step(i) ==
    LET source == machine_after(i - 1).state
        dest == machine_after(i).state
    IN  \/ source = "readme" /\ dest = "new" /\ is_opener_line(i)
        \/ source = "new" /\ dest = "readme" /\ is_closer_line(i)
        \/ source = dest /\ ~is_marker_line(i)

\* C16: the machine takes the two declared transitions only, readme -> new on
\* an opener and new -> readme on a closer; a closer line met in state 'readme'
\* is not copied as text but fires a trigger with no transition, which raises
\* and aborts parse, so that _write_to_readme writes nothing and README.md
\* stays as it was.
C16_DeclaredTransitionsOnly ==
    readme_ran
    => \A i \in 1..Len(in_lines) :
           /\ machine_after(i).err = "none" => declared_step(i)
           /\ (met_in_readme(i) /\ is_closer_line(i))
              => /\ machine_after(i).err = "MachineError"
                 /\ readme_call.out.err = "MachineError"
                 /\ readme_file = readme_before

\* a closer met in state 'readme' after an outside line and a whole region
C16_Witness ==
    /\ readme_ran
    /\ readme_before.is_file
    /\ \E i \in 3..Len(in_lines) :
           met_in_readme(i) /\ is_closer_line(i) /\ markers_before(i) = 2
    /\ readme_call.out.err = "MachineError"
    /\ readme_file = readme_before

-----------------------------------------------------------------------------
(* Claims about the two splices of task_document (SpecDocument) *)

start_lines == read_lines(readme_start)

code_replacement == code_new_text(script_file)[<<"CODE:", fn>>]
coverage_replacement == coverage_new_text(coverage_file)[<<"COVERAGE">>]

\* the positions of the README before the tasks that hold the line
positions_of(line) == {i \in 1..Len(start_lines) : start_lines[i] = line}

\* one opener and one closer after it
one_region(opener, closer) ==
    /\ Cardinality(positions_of(opener)) = 1
    /\ Cardinality(positions_of(closer)) = 1
    /\ \A i \in positions_of(opener) : \A j \in positions_of(closer) : i < j

\* no marker of the second region stands between the markers of the first
apart(opener, closer, other_opener, other_closer) ==
    \A i \in positions_of(opener) : \A j \in positions_of(closer) :
        \A k \in positions_of(other_opener) \cup positions_of(other_closer) : k < i \/ k > j

\* the README holds one well-formed CODE region and one well-formed COVERAGE
\* region, and the two are disjoint
has_both_regions ==
    /\ readme_start.is_file
    /\ one_region(code_opener, code_closer)
    /\ one_region(coverage_opener, coverage_closer)
    /\ apart(code_opener, code_closer, coverage_opener, coverage_closer)
    /\ apart(coverage_opener, coverage_closer, code_opener, code_closer)

\* the README with both regions replaced at once: the lines outside the regions
\* and the markers as they are, each region a blank line, its replacement and a
\* blank line; inside is "none", "code" or "coverage"
RECURSIVE both_replaced(_, _)
both_replaced(i, inside) ==
    IF i > Len(start_lines) THEN <<>>
    ELSE LET line == start_lines[i]
         IN  IF inside = "none"
             THEN IF line = code_opener
                  THEN <<line>> \o <<<<>>>> \o code_replacement \o <<<<>>>>
                       \o both_replaced(i + 1, "code")
                  ELSE IF line = coverage_opener
                  THEN <<line>> \o <<<<>>>> \o coverage_replacement \o <<<<>>>>
                       \o both_replaced(i + 1, "coverage")
                  ELSE <<line>> \o both_replaced(i + 1, "none")
             ELSE IF (inside = "code" /\ line = code_closer)
                     \/ (inside = "coverage" /\ line = coverage_closer)
                  THEN <<line>> \o both_replaced(i + 1, "none")
                  ELSE both_replaced(i + 1, inside)

\* the two splices of task_document have run, each with its replacement
both_splices_ran ==
    readme_runs = 2 /\ script_file.is_file /\ coverage_file.is_file

\* C17 as stated: the code splice and then the coverage splice on a README with
\* one well-formed CODE region and one well-formed, disjoint COVERAGE region
\* leave the CODE region with the code replacement, the COVERAGE region with
\* the coverage replacement and every line outside the two regions unchanged.
C17_SplicesCompose_AnyScript ==
    (both_splices_ran /\ has_both_regions)
    => readme_file = File(join("\n", both_replaced(1, "none")))

\* no line of the code replacement matches the pattern of the coverage splice
code_replacement_plain ==
    \A i \in 1..Len(code_replacement) : ~matches("COVERAGE", code_replacement[i])

\* C17, amended: when in addition no line of the code replacement matches the
\* marker pattern of the coverage splice, the code splice and then the coverage
\* splice leave the CODE region with the code replacement, the COVERAGE region
\* with the coverage replacement and every line outside the two regions
\* unchanged.
C17_SplicesCompose ==
    (both_splices_ran /\ has_both_regions /\ code_replacement_plain)
    => readme_file = File(join("\n", both_replaced(1, "none")))

\* a README with a title, a CODE region and a COVERAGE region, both with old
\* content, after the two splices have each changed it
C17_Witness ==
    /\ both_splices_ran
    /\ has_both_regions
    /\ code_replacement_plain
    /\ positions_of(<<"# calcipy">>) # {}
    /\ Cardinality(positions_of(<<"old text">>)) = 2
    /\ readme_before # readme_start
    /\ readme_file # readme_before
    /\ readme_file = File(join("\n", both_replaced(1, "none")))

====
